---- MODULE Spec2Model ----
(***************************************************************************)
(* A model of src/lld/cache.py (class TTLCache): the OrderedDict-backed    *)
(* TTL/LRU cache, its key derivation, and its callers.                     *)
(*                                                                         *)
(* Python resolves names when a statement runs.  cache.py imports hashlib, *)
(* OrderedDict and threading (lines 1-3) and nothing else; __init__ binds  *)
(* max_size, cache and lock (lines 7-9) and nothing else.  A statement     *)
(* that loads another global raises NameError, one that loads another      *)
(* attribute of self raises AttributeError, and the handler ends there.    *)
(* The model keeps that: each handler is translated line by line, and the  *)
(* first failing load decides its outcome.                                 *)
(*                                                                         *)
(* The specifications:                                                     *)
(*   Spec             one caller, calls in sequence, one action per handler*)
(*   SpecThreads      several callers, one action per interleaving point   *)
(*   SpecThreadsFair  SpecThreads with every entered call kept running     *)
(*   SpecKey          the pure function _make_key on bounded prompts       *)
(*   SpecGame         src/lld/tictactoe.py: make_move on an n x n board    *)
(*   SpecLogger       src/lld/logger.py: concurrent Logger() constructions *)
(***************************************************************************)
EXTENDS Integers, Sequences, FiniteSets, TLC

\* ------------------------------------------------------------------ bounds
MaxLen == 3          \* longest prompt given to _make_key in SpecKey
MaxCalls == 3        \* calls recorded per run of Spec
MaxTime == 1         \* the clock runs 0..MaxTime
MaxCap == 2          \* largest capacity a cache is built with
NumThreads == 2      \* concurrent callers in SpecThreads
MaxN == 3            \* largest board side in SpecGame
MaxMoves == 4        \* calls of make_move per game in SpecGame
MaxNew == 2          \* Logger() constructions per thread in SpecLogger

\* ------------------------------------------------------------------ inputs
Threads == 1..NumThreads
Tenants == {"t"}
Models == {"m"}
\* Prompts are sequences of characters.
Prompts == { <<"h", "i">>, <<"b", "y", "e">>, <<"y", "o">> }
Values == {-1, 7}
TTLs == {-1, 0, 1}
Capacities == (0 - 1)..MaxCap
Alphabet == {"h", "H", " "}
Whitespace == {" "}

RECURSIVE StringsUpTo(_)
StringsUpTo(n) ==
  IF n = 0 THEN { <<>> }
  ELSE LET shorter == StringsUpTo(n - 1)
       IN  shorter \cup { Append(s, c) : s \in shorter, c \in Alphabet }

\* A Python result: what was raised ("none" when the call returned) and the
\* value returned, <<>> standing for None and <<v>> for the value v.
None == <<>>
Returned(v) == [raised |-> "none", ret |-> v]
Raised(e) == [raised |-> e, ret |-> None]

\* ------------------------------------------------------- module namespace
\* The names a statement of cache.py can load as a global.
ModuleGlobals == {"hashlib", "OrderedDict", "threading", "TTLCache"}
\* The attributes __init__ binds on self.
InstanceAttrs == {"max_size", "cache", "lock"}
\* The names get(self, key) binds as locals.
GetLocals == {"self", "key"}

\* ---------------------------------------------------------- str methods
\* str.lower on one character
LowerChar(c) == IF c = "H" THEN "h" ELSE c
\* str.lower
lower(s) == [i \in 1..Len(s) |-> LowerChar(s[i])]

\* str.strip(): leading and trailing whitespace removed
RECURSIVE lstrip(_)
lstrip(s) ==
  IF s # <<>> /\ Head(s) \in Whitespace THEN lstrip(Tail(s)) ELSE s
RECURSIVE rstrip(_)
rstrip(s) ==
  IF s # <<>> /\ s[Len(s)] \in Whitespace
  THEN rstrip(SubSeq(s, 1, Len(s) - 1)) ELSE s
strip(s) == rstrip(lstrip(s))

\* str.split(): the maximal runs of non-whitespace, in order
RECURSIVE split_from(_, _, _)
split_from(s, word, words) ==
  IF s = <<>>
  THEN IF word = <<>> THEN words ELSE Append(words, word)
  ELSE IF Head(s) \in Whitespace
       THEN split_from(Tail(s), <<>>,
                       IF word = <<>> THEN words ELSE Append(words, word))
       ELSE split_from(Tail(s), Append(word, Head(s)), words)
split(s) == split_from(s, <<>>, <<>>)

\* " ".join(words)
RECURSIVE join(_)
join(words) ==
  IF words = <<>> THEN <<>>
  ELSE IF Len(words) = 1 THEN Head(words)
  ELSE Head(words) \o <<" ">> \o join(Tail(words))

\* hashlib.sha256(...).hexdigest(): a digest that identifies its input (no two
\* inputs of these sizes collide).
sha256_hexdigest(s) == <<"sha256", s>>

\* ------------------------------------------------------------ _make_key
\* line 12
normalized_of(prompt) == lower(join(split(strip(prompt))))

\* _make_key as it would be if the key were the prompt alone, without the
\* tenant and the model.
make_key_prompt_only(tenant_id, model, prompt) == <<prompt>>

\* TTLCache._make_key: computes normalized and prompt_hash (lines 12-13) and
\* returns the tuple of its three arguments (line 14).
make_key(tenant_id, model, prompt) ==
  LET normalized == normalized_of(prompt)
      prompt_hash == sha256_hexdigest(normalized)
  IN  <<tenant_id, model, prompt>>

\* ------------------------------------------------------------ OrderedDict
\* self.cache is an OrderedDict: a sequence of entries, oldest first.  Each
\* entry is [key, value, expiry], the tuple (value, expiry) stored under key.
keys(c) == { c[i].key : i \in 1..Len(c) }
\* OrderedDict.pop(key, None) on the entries
pop(c, key) == SelectSeq(c, LAMBDA e : e.key # key)
\* OrderedDict.__getitem__ for a key that is present
getitem(c, key) == CHOOSE e \in { c[i] : i \in 1..Len(c) } : e.key = key
\* OrderedDict.__setitem__: a present key keeps its place, a new key goes last
setitem(c, key, value, expiry) ==
  LET e == [key |-> key, value |-> value, expiry |-> expiry]
  IN  IF key \in keys(c)
      THEN [i \in 1..Len(c) |-> IF c[i].key = key THEN e ELSE c[i]]
      ELSE Append(c, e)
\* OrderedDict.move_to_end(key)
move_to_end(c, key) == Append(pop(c, key), getitem(c, key))

\* ------------------------------------------------------------ the handlers
\* Each handler, run from call to exit with no other caller in between, as
\* a function of the cache it finds: [cache |-> the entries it leaves,
\* out |-> what it returned or raised].  The lock it takes in a with block
\* is released when the block is left, also by an exception.

\* TTLCache.__init__: binds max_size, an empty OrderedDict and a free lock.
TTLCache_init(n) ==
  [max_size |-> n, cache |-> <<>>, lock |-> {}, out |-> Returned(None)]

\* set, lines 19-26: the with block.
set_locked(c, cap, key, value, expiry) ==
  IF key \in keys(c)
  THEN [cache |-> setitem(pop(c, key), key, value, expiry),
        out |-> Returned(None)]
  ELSE IF Len(c) >= cap
       THEN IF c = <<>>
            \* popitem on an empty OrderedDict
            THEN [cache |-> c, out |-> Raised("KeyError")]
            ELSE [cache |-> setitem(Tail(c), key, value, expiry),
                  out |-> Returned(None)]
       ELSE [cache |-> setitem(c, key, value, expiry), out |-> Returned(None)]

\* TTLCache.set: line 17 loads the global time before anything else.
set(c, cap, clock, tenant_id, model, prompt, value, ttl_seconds) ==
  IF "time" \notin ModuleGlobals
  THEN [cache |-> c, out |-> Raised("NameError")]
  ELSE LET expiry == clock + ttl_seconds
           key == make_key(tenant_id, model, prompt)
       IN  set_locked(c, cap, key, value, expiry)

\* get, lines 30-41: the with block.  Line 31 loads self.store.
get_locked(c, clock, key) ==
  IF "store" \notin InstanceAttrs
  THEN [cache |-> c, out |-> Raised("AttributeError")]
  ELSE IF key \notin keys(c)
       THEN [cache |-> c, out |-> Returned(None)]
       ELSE IF "time" \notin ModuleGlobals
            THEN [cache |-> c, out |-> Raised("NameError")]
            ELSE IF clock > getitem(c, key).expiry
                 THEN [cache |-> pop(c, key), out |-> Returned(<<0 - 1>>)]
                 ELSE [cache |-> move_to_end(c, key),
                       out |-> Returned(<<getitem(c, key).value>>)]

\* TTLCache.get(self, key), called with nargs arguments after self.  The
\* signature binds one; line 29 then loads tenant_id, model and prompt.
get(c, clock, key, nargs) ==
  IF nargs # 1
  THEN [cache |-> c, out |-> Raised("TypeError")]
  ELSE IF {"tenant_id", "model", "prompt"} \subseteq GetLocals \cup ModuleGlobals
       THEN get_locked(c, clock, key)
       ELSE [cache |-> c, out |-> Raised("NameError")]

delete_pop_no_default(c, key) ==
  IF key \in keys(c)
  THEN [cache |-> pop(c, key), out |-> Returned(None)]
  ELSE [cache |-> c, out |-> Raised("KeyError")]

\* delete, line 45: self.cache.pop(key, None), outside any with block.
delete_pop(c, key) == [cache |-> pop(c, key), out |-> Returned(None)]

\* TTLCache.delete
delete(c, tenant_id, model, prompt) ==
  delete_pop(c, make_key(tenant_id, model, prompt))

\* ------------------------------------------------- tictactoe.py: the game
\* class Symbol(Enum), lines 3-6
X == 1
O == -1
EMPTY == 0
\* The symbols of the two players, Player(name, symbol).symbol.value.
PlayerValues == {X, O}
Sizes == 0..MaxN
\* Rows and columns a caller may name: from one below the board to the last
\* of the largest board, which is past the end of every smaller board.
Coords == (0 - 1)..(MaxN - 1)
abs(x) == IF x < 0 THEN 0 - x ELSE x

\* TicTacToe.__init__(n), lines 14-22
TicTacToe_init(n) ==
  [n |-> n,
   rows |-> [i \in 0..(n - 1) |-> 0],
   cols |-> [i \in 0..(n - 1) |-> 0],
   diag |-> 0,
   anti_diag |-> 0,
   board |-> [r \in 0..(n - 1) |-> [c \in 0..(n - 1) |-> EMPTY]]]

\* make_move as it would be with line 37's test left out: every mark is
\* added to diag.
make_move_diag_unguarded(self, row, col, val) ==
  IF \/ ~(0 <= row /\ row < self.n /\ 0 <= col /\ col < self.n)
     \/ self.board[row][col] # 0
  THEN [self |-> self, ret |-> FALSE]
  ELSE LET board1 == [self.board EXCEPT ![row][col] = val]
           rows1 == [self.rows EXCEPT ![row] = @ + val]
           cols1 == [self.cols EXCEPT ![col] = @ + val]
           diag1 == self.diag + val
           anti1 == IF row + col = self.n - 1
                    THEN self.anti_diag + val ELSE self.anti_diag
       IN  [self |-> [n |-> self.n, rows |-> rows1, cols |-> cols1,
                      diag |-> diag1, anti_diag |-> anti1, board |-> board1],
            ret |-> \/ abs(rows1[row]) = self.n
                    \/ abs(cols1[col]) = self.n
                    \/ abs(diag1) = self.n
                    \/ abs(anti1) = self.n]

\* TicTacToe.make_move(row, col, player), lines 24-54, with val the
\* player's symbol value (line 30).  The test of line 26 reads the board
\* only when row and col are in range.
make_move(self, row, col, val) ==
  IF \/ ~(0 <= row /\ row < self.n /\ 0 <= col /\ col < self.n)
     \/ self.board[row][col] # 0
  THEN [self |-> self, ret |-> FALSE]
  ELSE LET board1 == [self.board EXCEPT ![row][col] = val]
           rows1 == [self.rows EXCEPT ![row] = @ + val]
           cols1 == [self.cols EXCEPT ![col] = @ + val]
           diag1 == IF row = col THEN self.diag + val ELSE self.diag
           anti1 == IF row + col = self.n - 1
                    THEN self.anti_diag + val ELSE self.anti_diag
       IN  [self |-> [n |-> self.n, rows |-> rows1, cols |-> cols1,
                      diag |-> diag1, anti_diag |-> anti1, board |-> board1],
            ret |-> \/ abs(rows1[row]) = self.n
                    \/ abs(cols1[col]) = self.n
                    \/ abs(diag1) = self.n
                    \/ abs(anti1) = self.n]

\* ------------------------------------------------------------------ state
VARIABLES
  max_size,   \* self.max_size
  cache,      \* self.cache, oldest entry first
  lock,       \* self.lock: the set of threads holding it, {} when free
  now,        \* the clock time.time() would read
  log,        \* Spec: the calls made so far, [op, key, ttl, at]
  last,       \* Spec: the last call, its arguments and its outcome
  before,     \* Spec: the entries the last call found
  pc,         \* SpecThreads: each thread's place, "idle" or the line it is at
  arg,        \* SpecThreads: the arguments of each thread's call
  lkey,       \* SpecThreads: each thread's local variable key
  result,     \* SpecThreads: the operation and outcome of each thread's last call
  kin,        \* SpecKey: the arguments given to _make_key
  kout,       \* SpecKey: the keys _make_key returned, <<>> before the call
  game,       \* SpecGame: the TicTacToe object, a record of its fields
  move,       \* SpecGame: the last call of make_move, what it found and returned
  moves,      \* SpecGame: the number of calls of make_move so far
  instance,   \* SpecLogger: Logger._instance, None or an object of heap
  class_lock, \* SpecLogger: Logger._lock, the set of threads holding it
  heap,       \* SpecLogger: the Logger objects made, each the set of its bound attributes
  hnext,      \* SpecLogger: the next field of the handlers _info, _warn, _error
  builds,     \* SpecLogger: the number of calls of LogHandlerConfiguration.build
  lpc,        \* SpecLogger: each thread's place in Logger.__new__
  got,        \* SpecLogger: the objects each thread's Logger() calls returned
  logged      \* SpecLogger: the outcome of each thread's last log call

vars == <<max_size, cache, lock, now, log, last, before,
          pc, arg, lkey, result, kin, kout, game, move, moves,
          instance, class_lock, heap, hnext, builds, lpc, got, logged>>
cacheVars == <<max_size, cache, lock, now>>
seqVars == <<log, last, before>>
threadVars == <<pc, arg, lkey, result>>
keyVars == <<kin, kout>>
gameVars == <<game, move, moves>>
classVars == <<instance, class_lock, heap, hnext, builds>>
loggerVars == <<classVars, lpc, got, logged>>

NoKey == <<>>
NoArg == [tenant_id |-> "t", model |-> "m", prompt |-> <<>>,
          value |-> 0, ttl |-> 0, nargs |-> 0]
NoResult == [op |-> "none", out |-> Returned(None)]
NoKin == [tenant_id |-> "t", model |-> "m", p1 |-> <<>>, p2 |-> <<>>,
          tenant2 |-> "t", model2 |-> "m"]

\* The object a caller holds after TTLCache(n).
InitCache ==
  \E n \in Capacities :
    LET obj == TTLCache_init(n)
    IN  /\ max_size = obj.max_size
        /\ cache = obj.cache
        /\ lock = obj.lock
        /\ now = 0
        /\ last = [op |-> "__init__", key |-> NoKey, value |-> 0, ttl |-> 0,
                   out |-> obj.out]
InitSeq == log = <<>> /\ before = <<>>
InitThreads ==
  /\ pc = [t \in Threads |-> "idle"]
  /\ arg = [t \in Threads |-> NoArg]
  /\ lkey = [t \in Threads |-> NoKey]
  /\ result = [t \in Threads |-> NoResult]
InitKeyIdle == kin = NoKin /\ kout = <<>>
NoMove == [row |-> 0, col |-> 0, val |-> EMPTY, ret |-> FALSE,
           before |-> TicTacToe_init(0)]
InitGameIdle == game = TicTacToe_init(0) /\ move = NoMove /\ moves = 0
\* logger.py once its class bodies have run: Logger._instance = None (line
\* 137), Logger._lock free (line 138), the handlers of lines 117-120 with
\* next = None (line 68), no Logger made.
Handlers == {"_info", "_warn", "_error"}
InitLoggerClass ==
  /\ instance = None
  /\ class_lock = {}
  /\ heap = <<>>
  /\ hnext = [h \in Handlers |-> None]
  /\ builds = 0
InitLoggerIdle ==
  /\ InitLoggerClass
  /\ lpc = [t \in Threads |-> "idle"]
  /\ got = [t \in Threads |-> <<>>]
  /\ logged = [t \in Threads |-> "none"]

\* The clock advances between calls.
Tick ==
  /\ now < MaxTime
  /\ now' = now + 1
  /\ UNCHANGED <<max_size, cache, lock, seqVars, threadVars, keyVars, gameVars, loggerVars>>

\* ------------------------------------------------- Spec: calls in sequence
Record(op, key, ttl) == Append(log, [op |-> op, key |-> key, ttl |-> ttl, at |-> now])

Set(tenant_id, model, prompt, value, ttl_seconds) ==
  LET r == set(cache, max_size, now, tenant_id, model, prompt, value, ttl_seconds)
      key == make_key(tenant_id, model, prompt)
  IN  /\ Len(log) < MaxCalls
      /\ cache' = r.cache
      /\ before' = cache
      /\ last' = [op |-> "set", key |-> key, value |-> value,
                  ttl |-> ttl_seconds, out |-> r.out]
      /\ log' = Record("set", key, ttl_seconds)
      /\ UNCHANGED <<max_size, lock, now, threadVars, keyVars, gameVars, loggerVars>>

Get(key, nargs) ==
  LET r == get(cache, now, key, nargs)
  IN  /\ Len(log) < MaxCalls
      /\ cache' = r.cache
      /\ before' = cache
      /\ last' = [op |-> "get", key |-> key, value |-> 0, ttl |-> 0,
                  out |-> r.out]
      /\ log' = Record("get", key, 0)
      /\ UNCHANGED <<max_size, lock, now, threadVars, keyVars, gameVars, loggerVars>>

Delete(tenant_id, model, prompt) ==
  LET r == delete(cache, tenant_id, model, prompt)
      key == make_key(tenant_id, model, prompt)
  IN  /\ Len(log) < MaxCalls
      /\ cache' = r.cache
      /\ before' = cache
      /\ last' = [op |-> "delete", key |-> key, value |-> 0, ttl |-> 0,
                  out |-> r.out]
      /\ log' = Record("delete", key, 0)
      /\ UNCHANGED <<max_size, lock, now, threadVars, keyVars, gameVars, loggerVars>>

Keys == { make_key(t, m, p) : t \in Tenants, m \in Models, p \in Prompts }

Init ==
  /\ InitCache /\ InitSeq /\ InitThreads /\ InitKeyIdle /\ InitGameIdle
  /\ InitLoggerIdle

Next ==
  \/ \E t \in Tenants, m \in Models, p \in Prompts, v \in Values, ttl \in TTLs :
       Set(t, m, p, v, ttl)
  \/ \E k \in Keys, n \in {1, 3} : Get(k, n)
  \/ \E t \in Tenants, m \in Models, p \in Prompts : Delete(t, m, p)
  \/ Tick

Spec == Init /\ [][Next]_vars

\* ------------------------------------------ SpecThreads: concurrent callers
\* A thread's place is the line it is about to run.  Between two statements
\* of a handler any other thread may run.
End(t, op, out) ==
  /\ pc' = [pc EXCEPT ![t] = "idle"]
  /\ arg' = [arg EXCEPT ![t] = NoArg]
  /\ lkey' = [lkey EXCEPT ![t] = NoKey]
  /\ result' = [result EXCEPT ![t] = [op |-> op, out |-> out]]

\* cache.set(tenant_id, model, prompt, value, ttl_seconds) is entered.
CallSet(t, tenant_id, model, prompt, value, ttl_seconds) ==
  /\ pc[t] = "idle"
  /\ pc' = [pc EXCEPT ![t] = "set17"]
  /\ arg' = [arg EXCEPT ![t] = [tenant_id |-> tenant_id, model |-> model,
                                prompt |-> prompt, value |-> value,
                                ttl |-> ttl_seconds, nargs |-> 5]]
  /\ result' = [result EXCEPT ![t] = NoResult]
  /\ UNCHANGED <<cacheVars, seqVars, lkey, keyVars, gameVars, loggerVars>>

\* set, line 17: expiry = time.time() + ttl_seconds.
set17(t) ==
  /\ pc[t] = "set17"
  /\ "time" \notin ModuleGlobals
  /\ End(t, "set", Raised("NameError"))
  /\ UNCHANGED <<cacheVars, seqVars, keyVars, gameVars, loggerVars>>

\* cache.get(...) with nargs arguments: one binds key, any other number is a
\* TypeError before the body runs.
CallGet(t, key, nargs) ==
  /\ pc[t] = "idle"
  /\ IF nargs = 1
     THEN /\ pc' = [pc EXCEPT ![t] = "get29"]
          /\ lkey' = [lkey EXCEPT ![t] = key]
          /\ arg' = [arg EXCEPT ![t] = [NoArg EXCEPT !.nargs = nargs]]
          /\ result' = [result EXCEPT ![t] = NoResult]
     ELSE End(t, "get", Raised("TypeError"))
  /\ UNCHANGED <<cacheVars, seqVars, keyVars, gameVars, loggerVars>>

\* get, line 29: key = self._make_key(tenant_id, model, prompt).
get29(t) ==
  /\ pc[t] = "get29"
  /\ ~({"tenant_id", "model", "prompt"} \subseteq GetLocals \cup ModuleGlobals)
  /\ End(t, "get", Raised("NameError"))
  /\ UNCHANGED <<cacheVars, seqVars, keyVars, gameVars, loggerVars>>

\* cache.delete(tenant_id, model, prompt) is entered.
CallDelete(t, tenant_id, model, prompt) ==
  /\ pc[t] = "idle"
  /\ pc' = [pc EXCEPT ![t] = "delete44"]
  /\ arg' = [arg EXCEPT ![t] = [NoArg EXCEPT !.tenant_id = tenant_id,
                                !.model = model, !.prompt = prompt,
                                !.nargs = 3]]
  /\ result' = [result EXCEPT ![t] = NoResult]
  /\ UNCHANGED <<cacheVars, seqVars, lkey, keyVars, gameVars, loggerVars>>

\* delete, line 44: key = self._make_key(tenant_id, model, prompt).
delete44(t) ==
  /\ pc[t] = "delete44"
  /\ lkey' = [lkey EXCEPT ![t] =
                make_key(arg[t].tenant_id, arg[t].model, arg[t].prompt)]
  /\ pc' = [pc EXCEPT ![t] = "delete45"]
  /\ UNCHANGED <<cacheVars, seqVars, arg, result, keyVars, gameVars, loggerVars>>

\* Line 45 as it would be with self.lock.acquire() before the pop and no
\* release after it: the thread waits for the lock and keeps it.
delete45_acquire_no_release(t) ==
  LET r == delete_pop(cache, lkey[t])
  IN  /\ pc[t] = "delete45"
      /\ lock = {}
      /\ lock' = {t}
      /\ cache' = r.cache
      /\ End(t, "delete", r.out)
      /\ UNCHANGED <<max_size, now, seqVars, keyVars, gameVars, loggerVars>>

\* delete, line 45: self.cache.pop(key, None).  No with block: the lock is
\* neither tested nor taken.
delete45(t) ==
  LET r == delete_pop(cache, lkey[t])
  IN  /\ pc[t] = "delete45"
      /\ cache' = r.cache
      /\ End(t, "delete", r.out)
      /\ UNCHANGED <<max_size, lock, now, seqVars, keyVars, gameVars, loggerVars>>

\* The lines at which a thread reads or writes self.cache.
MappingLines == {"delete45"}

NextThreads ==
  \/ \E t \in Threads, tn \in Tenants, m \in Models, p \in Prompts,
        v \in Values, ttl \in TTLs : CallSet(t, tn, m, p, v, ttl)
  \/ \E t \in Threads : set17(t)
  \/ \E t \in Threads, k \in Keys, n \in {1, 3} : CallGet(t, k, n)
  \/ \E t \in Threads : get29(t)
  \/ \E t \in Threads, tn \in Tenants, m \in Models, p \in Prompts :
       CallDelete(t, tn, m, p)
  \/ \E t \in Threads : delete44(t)
  \/ \E t \in Threads : delete45(t)
  \/ Tick

SpecThreads == Init /\ [][NextThreads]_vars

\* The interpreter gives every thread that can run a turn: a handler that has
\* been entered keeps taking its steps.  Callers need not call again.
Step(t) == set17(t) \/ get29(t) \/ delete44(t) \/ delete45(t)
Fairness == \A t \in Threads : WF_vars(Step(t))
\* Whether a call ends does not depend on which prompt or value it is given:
\* the calls of the fair specification name one prompt and one value, with
\* every TTL and both ways of calling get.
FairPrompts == {<<"h", "i">>}
FairValues == {7}
NextThreadsFair ==
  \/ \E t \in Threads, tn \in Tenants, m \in Models, p \in FairPrompts,
        v \in FairValues, ttl \in TTLs : CallSet(t, tn, m, p, v, ttl)
  \/ \E t \in Threads : set17(t)
  \/ \E t \in Threads, tn \in Tenants, m \in Models, p \in FairPrompts,
        n \in {1, 3} : CallGet(t, make_key(tn, m, p), n)
  \/ \E t \in Threads : get29(t)
  \/ \E t \in Threads, tn \in Tenants, m \in Models, p \in FairPrompts :
       CallDelete(t, tn, m, p)
  \/ \E t \in Threads : delete44(t)
  \/ \E t \in Threads : delete45(t)
  \/ Tick
SpecThreadsFair == Init /\ [][NextThreadsFair]_vars /\ Fairness

\* ------------------------------------------------ SpecKey: _make_key alone
\* The second caller's tenant and model: the first caller's or another.
KeyTenants == Tenants \cup {"u"}
KeyModels == Models \cup {"n"}
InitKey ==
  /\ InitCache /\ InitSeq /\ InitThreads /\ InitGameIdle /\ InitLoggerIdle
  /\ max_size = MaxCap
  /\ kin \in [tenant_id : Tenants, model : Models,
              p1 : StringsUpTo(MaxLen), p2 : StringsUpTo(MaxLen),
              tenant2 : KeyTenants, model2 : KeyModels]
  /\ kout = <<>>

\* The two keys derived for one tenant and model from the two prompts, and
\* the key derived from the second prompt for the second tenant and model.
Derive ==
  /\ kout = <<>>
  /\ kout' = << make_key(kin.tenant_id, kin.model, kin.p1),
                make_key(kin.tenant_id, kin.model, kin.p2),
                make_key(kin.tenant2, kin.model2, kin.p2) >>
  /\ UNCHANGED <<cacheVars, seqVars, threadVars, kin, gameVars, loggerVars>>

NextKey == Derive

SpecKey == InitKey /\ [][NextKey]_vars

\* ------------------------------------------- SpecGame: a game of make_move
\* The object a caller holds after TicTacToe(n), next to an idle cache.
InitGame ==
  /\ InitCache /\ InitSeq /\ InitThreads /\ InitKeyIdle /\ InitLoggerIdle
  /\ max_size = MaxCap
  /\ \E n \in Sizes : game = TicTacToe_init(n)
  /\ move = NoMove
  /\ moves = 0

\* game.make_move(row, col, player) with player.symbol.value = val.  Any
\* player may be named at any call: make_move keeps no turn.
MakeMove(row, col, val) ==
  LET r == make_move(game, row, col, val)
  IN  /\ moves < MaxMoves
      /\ game' = r.self
      /\ move' = [row |-> row, col |-> col, val |-> val, ret |-> r.ret,
                  before |-> game]
      /\ moves' = moves + 1
      /\ UNCHANGED <<cacheVars, seqVars, threadVars, keyVars, loggerVars>>

NextGame == \E row \in Coords, col \in Coords, val \in PlayerValues :
              MakeMove(row, col, val)

SpecGame == InitGame /\ [][NextGame]_vars

\* ------------------------------- SpecLogger: concurrent Logger() callers
\* A Logger object is named by its place in heap.
Obj(i) == <<"Logger", i>>

\* LogHandlerConfiguration.build, lines 123-126:
\* cls._info.set_next(cls._warn).set_next(cls._error); set_next (lines
\* 72-75) binds self.next and returns its argument.  The handlers' next
\* fields after the call.
build(hn) == [hn EXCEPT !["_info"] = <<"_warn">>, !["_warn"] = <<"_error">>]

InitLogger ==
  /\ InitCache /\ InitSeq /\ InitThreads /\ InitKeyIdle /\ InitGameIdle
  /\ max_size = MaxCap
  /\ InitLoggerIdle

\* Logger() is called: __new__ is entered.
CallNew(t) ==
  /\ lpc[t] = "idle"
  /\ Len(got[t]) < MaxNew
  /\ lpc' = [lpc EXCEPT ![t] = "new141"]
  /\ UNCHANGED <<cacheVars, seqVars, threadVars, keyVars, gameVars,
                 classVars, got, logged>>

\* Line 141 as it would be without the with statement: the thread goes on
\* to line 142 whoever holds the lock.
new141_no_lock(t) ==
  /\ lpc[t] = "new141"
  /\ lpc' = [lpc EXCEPT ![t] = "new142"]
  /\ UNCHANGED <<cacheVars, seqVars, threadVars, keyVars, gameVars,
                 classVars, got, logged>>

\* __new__, line 141: with cls._lock.  The thread waits until the lock is
\* free and takes it.
new141(t) ==
  /\ lpc[t] = "new141"
  /\ class_lock = {}
  /\ class_lock' = {t}
  /\ lpc' = [lpc EXCEPT ![t] = "new142"]
  /\ UNCHANGED <<cacheVars, seqVars, threadVars, keyVars, gameVars,
                 instance, heap, hnext, builds, got, logged>>

\* __new__, line 142: if cls._instance is None.
new142(t) ==
  /\ lpc[t] = "new142"
  /\ lpc' = [lpc EXCEPT ![t] = IF instance = None THEN "new143" ELSE "exit"]
  /\ UNCHANGED <<cacheVars, seqVars, threadVars, keyVars, gameVars,
                 classVars, got, logged>>

\* __new__, line 143: cls._instance = super().__new__(cls).  A new object
\* with no attribute bound.
new143(t) ==
  /\ lpc[t] = "new143"
  /\ heap' = Append(heap, {})
  /\ instance' = Obj(Len(heap) + 1)
  /\ lpc' = [lpc EXCEPT ![t] = "new144"]
  /\ UNCHANGED <<cacheVars, seqVars, threadVars, keyVars, gameVars,
                 class_lock, hnext, builds, got, logged>>

\* __new__, line 144:
\* cls._instance.handler_chain = LogHandlerConfiguration.build().
new144(t) ==
  /\ lpc[t] = "new144"
  /\ hnext' = build(hnext)
  /\ builds' = builds + 1
  /\ heap' = [heap EXCEPT ![instance[2]] = @ \cup {"handler_chain"}]
  /\ lpc' = [lpc EXCEPT ![t] = "exit"]
  /\ UNCHANGED <<cacheVars, seqVars, threadVars, keyVars, gameVars,
                 instance, class_lock, got, logged>>

\* __new__, the end of the with block of line 141: the lock is released.
exit(t) ==
  /\ lpc[t] = "exit"
  /\ class_lock' = class_lock \ {t}
  /\ lpc' = [lpc EXCEPT ![t] = "new145"]
  /\ UNCHANGED <<cacheVars, seqVars, threadVars, keyVars, gameVars,
                 instance, heap, hnext, builds, got, logged>>

\* __new__, line 145: return cls._instance.
new145(t) ==
  /\ lpc[t] = "new145"
  /\ got' = [got EXCEPT ![t] = Append(@, instance)]
  /\ lpc' = [lpc EXCEPT ![t] = "idle"]
  /\ UNCHANGED <<cacheVars, seqVars, threadVars, keyVars, gameVars,
                 classVars, logged>>

\* Logger.log, lines 147-149, on the object the thread's last Logger()
\* returned: self.handler_chain is loaded, an AttributeError if unbound.
log_call(t) ==
  /\ lpc[t] = "idle"
  /\ got[t] # <<>>
  /\ logged[t] = "none"
  /\ LET self == got[t][Len(got[t])]
     IN  logged' = [logged EXCEPT ![t] =
                      IF self # None /\ "handler_chain" \in heap[self[2]]
                      THEN "handled" ELSE "AttributeError"]
  /\ UNCHANGED <<cacheVars, seqVars, threadVars, keyVars, gameVars,
                 classVars, lpc, got>>

NextLogger ==
  \/ \E t \in Threads : CallNew(t)
  \/ \E t \in Threads : new141(t)
  \/ \E t \in Threads : new142(t)
  \/ \E t \in Threads : new143(t)
  \/ \E t \in Threads : new144(t)
  \/ \E t \in Threads : exit(t)
  \/ \E t \in Threads : new145(t)
  \/ \E t \in Threads : log_call(t)

SpecLogger == InitLogger /\ [][NextLogger]_vars

\* ================================================================ claims
\* What a caller may be handed: an explicit "not found" (Python's None), or
\* a stored value.
Miss == Returned(None)
LastIndex == Len(log)
\* The clock reading at which the last call was made.
LastAt == log[LastIndex].at
\* The keys of the recorded calls i..j, in call order.
LogKeys(i, j) == [n \in 1..(j - i + 1) |-> log[n + i - 1].key]
ResidentKeys == [i \in 1..Len(cache) |-> cache[i].key]
Distinct(ks) == \A i, j \in 1..Len(ks) : i # j => ks[i] # ks[j]
\* The recorded call i was a set of key k that was asked for a non-negative TTL.
IsSetOf(i, k) == log[i].op = "set" /\ log[i].key = k /\ log[i].ttl >= 0
\* No recorded call strictly between i and the last one names key k.
UntouchedSince(i, k) == \A j \in (i + 1)..(LastIndex - 1) : log[j].key # k
\* The last call is a get of a key whose latest set, still in place, gave it an
\* expiry that the clock has passed.
GetOfExpired ==
  /\ last.op = "get" /\ max_size > 0
  /\ \E i \in 1..(LastIndex - 1) :
       /\ IsSetOf(i, last.key)
       /\ UntouchedSince(i, last.key)
       /\ log[i].at + log[i].ttl < LastAt
\* The last call is a get of a key no recorded call has set.
GetOfAbsent ==
  /\ last.op = "get"
  /\ \A i \in 1..(LastIndex - 1) : ~(log[i].op = "set" /\ log[i].key = last.key)

\* C2 (LRU victim): a set of a key that is not resident, on a cache holding
\* max_size entries, evicts exactly the least recently touched key and keeps
\* the others.  Stated on the entries the set found, and on the two runs the
\* claim names: max_size + 1 sets of distinct keys leave the last max_size of
\* them, and with capacity 2, set(k1); set(k2); get(k1); set(k3) leaves k1, k3.
C2_LRUVictim ==
  /\ ( /\ last.op = "set" /\ last.ttl >= 0 /\ max_size > 0
       /\ Len(before) = max_size /\ last.key \notin keys(before) )
     => /\ ResidentKeys = Append(Tail([i \in 1..Len(before) |-> before[i].key]),
                                 last.key)
  /\ ( /\ max_size > 0 /\ LastIndex = max_size + 1
       /\ \A i \in 1..LastIndex : log[i].op = "set" /\ log[i].ttl >= 0
       /\ Distinct(LogKeys(1, LastIndex)) )
     => ResidentKeys = LogKeys(2, LastIndex)
  /\ ( /\ max_size = 2 /\ LastIndex = 4
       /\ \A i \in {1, 2, 4} : log[i].op = "set" /\ log[i].ttl > 0
       /\ \A i \in 1..4 : log[i].at = log[1].at
       /\ log[3].op = "get" /\ log[3].key = log[1].key
       /\ Distinct(<<log[1].key, log[2].key, log[4].key>>) )
     => ResidentKeys = <<log[1].key, log[4].key>>

\* C3 (freshness): a get of a key whose entry has expired returns a miss, never
\* the stored value, and the key is absent afterwards.
C3_Freshness ==
  /\ ( /\ last.op = "get" /\ last.key \in keys(before)
       /\ getitem(before, last.key).expiry < LastAt )
     => last.out = Miss /\ last.key \notin keys(cache)
  /\ GetOfExpired => last.out = Miss /\ last.key \notin keys(cache)

\* C4 (explicit miss): get gives one and the same explicit "not found" result
\* for an absent key and for an expired key: a return of None, which is no
\* stored value, and in particular not a return of -1.
C4_ExplicitMiss ==
  (GetOfAbsent \/ GetOfExpired) => last.out = Miss

\* C9 (negative TTL): a set with a negative ttl_seconds fails with
\* InvalidArgument and leaves the entries as they were.
C9_NegativeTTLRejected ==
  (last.op = "set" /\ last.ttl < 0)
    => last.out.raised = "InvalidArgument" /\ cache = before

\* C10 (non-positive capacity): a cache configured with capacity <= 0 reports
\* InvalidArgument at construction and on set, and never holds an entry.
C10_NonPositiveCapacityRejected ==
  max_size <= 0 =>
    /\ last.op \in {"__init__", "set"} => last.out.raised = "InvalidArgument"
    /\ cache = <<>>

\* C8 (delete idempotence): a delete of a key that is not resident raises
\* nothing and leaves the entries and their order as they were; a second
\* delete of the same key changes nothing the first left.
C8_DeleteIdempotent ==
  /\ (last.op = "delete" /\ last.key \notin keys(before))
       => last.out = Returned(None) /\ cache = before
  /\ ( /\ last.op = "delete" /\ LastIndex >= 2
       /\ log[LastIndex - 1].op = "delete"
       /\ log[LastIndex - 1].key = last.key )
       => last.out = Returned(None) /\ cache = before

\* C8's case: a delete of an absent key, made right after a delete of that key.
C8_Witness ==
  /\ last.op = "delete" /\ last.key \notin keys(before)
  /\ LastIndex >= 2
  /\ log[LastIndex - 1].op = "delete"
  /\ log[LastIndex - 1].key = last.key
  /\ last.out = Returned(None)

\* C5 (mutual exclusion): a thread at a line that reads or writes the
\* mapping holds the lock, so no two threads are at such lines together.
C5_MutualExclusion ==
  /\ \A t \in Threads : pc[t] \in MappingLines => lock = {t}
  /\ \A t, u \in Threads :
       (t # u /\ pc[t] \in MappingLines) => pc[u] \notin MappingLines

\* C6 (no failure from contention): under every interleaving each call ends
\* as a hit, a miss or a normal return, never in an error.
C6_NoCallFails ==
  \A t \in Threads : result[t].out.raised = "none"

\* Two prompts with the same words up to letter case: they differ at most in
\* leading, trailing or repeated whitespace and in case.
SameUpToSpaceAndCase(p, q) ==
  LET wp == split(p)
      wq == split(q)
  IN  /\ Len(wp) = Len(wq)
      /\ \A i \in 1..Len(wp) : lower(wp[i]) = lower(wq[i])

\* C7 (key normalization): prompts that differ only in leading, trailing or
\* repeated whitespace or in letter case get the same key, for one tenant and
\* model.
C7_KeyNormalization ==
  (kout # <<>> /\ SameUpToSpaceAndCase(kin.p1, kin.p2)) => kout[1] = kout[2]

\* ------------------------------------------------------ claims C11 to C14
\* The entry a set(key, value, ttl_seconds) made at clock reading at is to store.
EntryOf(key, value, ttl_seconds, at) ==
  [key |-> key, value |-> value, expiry |-> at + ttl_seconds]
KeysOf(c) == [i \in 1..Len(c) |-> c[i].key]
\* The last call is a set with arguments the cache accepts.
ValidSet == last.op = "set" /\ last.ttl >= 0 /\ max_size > 0
\* The call before the last one was a set of the last call's key, with
\* arguments the cache accepts.
PrevWasSetOfKey ==
  /\ max_size > 0 /\ LastIndex >= 2
  /\ IsSetOf(LastIndex - 1, last.key)

\* C11 (replacement): a set on a key that is already resident, such as a
\* repeated set on one key, replaces its value and expiry, puts it at the
\* most-recently-used end, evicts nothing and keeps the number of entries.
C11_Replacement ==
  /\ (ValidSet /\ last.key \in keys(before))
       => /\ cache = Append(pop(before, last.key),
                            EntryOf(last.key, last.value, last.ttl, LastAt))
          /\ Len(cache) = Len(before)
  /\ (ValidSet /\ PrevWasSetOfKey)
       => /\ cache # <<>>
          /\ cache[Len(cache)] = EntryOf(last.key, last.value, last.ttl, LastAt)
          /\ Len(cache) = Len(before)
          /\ keys(cache) = keys(before)

\* C12 (recency position): right after a set that the cache accepts, its key
\* is at the most-recently-used end, and right after a get that hits a live
\* entry its key is there; the other keys keep their relative order.
C12_RecencyPosition ==
  /\ ValidSet
       => /\ cache # <<>>
          /\ cache[Len(cache)].key = last.key
          /\ KeysOf(pop(cache, last.key))
               \in { KeysOf(pop(before, last.key)),
                     KeysOf(pop(Tail(before), last.key)) }
  /\ ( /\ last.op = "get" /\ last.key \in keys(before)
       /\ LastAt <= getitem(before, last.key).expiry )
       => /\ cache[Len(cache)].key = last.key
          /\ pop(cache, last.key) = pop(before, last.key)

\* C13 (zero TTL): after a set with ttl_seconds == 0, a get of that key, also
\* one made at the same clock reading, is a miss and removes the entry.
C13_ZeroTTL ==
  ( /\ last.op = "get" /\ max_size > 0
    /\ \E i \in 1..(LastIndex - 1) :
         /\ IsSetOf(i, last.key) /\ log[i].ttl = 0
         /\ UntouchedSince(i, last.key) )
    => last.out = Miss /\ last.key \notin keys(cache)

\* C14 (live hit): a get made right after a set of the same key, at a time not
\* later than the expiry that set gave, returns exactly the value of that set.
C14_LiveHit ==
  [][ ( /\ ValidSet
        /\ Len(log') = Len(log) + 1
        /\ last'.op = "get" /\ last'.key = last.key
        /\ now <= LastAt + last.ttl )
      => last'.out = Returned(<<last.value>>) ]_vars

\* ----------------------------------------------------------- claim C15
AllIdle == \A t \in Threads : pc[t] = "idle"

Removed == keys(before) \ keys(cache)
\* The recorded call i is a set of a key that no later call names, no later
\* call is a set, and the clock has passed the expiry that set gave.
ExpiredUnread(i) ==
  /\ max_size > 0
  /\ IsSetOf(i, log[i].key)
  /\ \A j \in (i + 1)..LastIndex : log[j].op # "set" /\ log[j].key # log[i].key
  /\ log[i].at + log[i].ttl < now

\* C17 (only get expires entries): a call removes at most the key a delete
\* names, the least recently used key when a set of a new key finds the cache
\* full, or the expired key a get names; so an entry whose expiry has passed
\* and that no call has read or deleted is still resident.
C17_OnlyGetExpires ==
  /\ last.op = "delete" => Removed \subseteq {last.key}
  /\ last.op = "set"
       => Removed \subseteq
            (IF last.key \notin keys(before) /\ Len(before) >= max_size
                /\ before # <<>>
             THEN {before[1].key} ELSE {})
  /\ last.op = "get"
       => Removed \subseteq
            (IF /\ last.key \in keys(before)
                /\ LastAt > getitem(before, last.key).expiry
             THEN {last.key} ELSE {})
  /\ \A i \in 1..LastIndex : ExpiredUnread(i) => log[i].key \in keys(cache)

\* C18 (delete of a resident key): a delete of a resident key, such as one
\* that follows a set of that key, leaves the key absent, one entry fewer and
\* the other entries as they were; a get of the key right after the delete is
\* a miss.
C18_DeleteResident ==
  /\ (last.op = "delete" /\ last.key \in keys(before))
       => /\ cache = pop(before, last.key)
          /\ Len(cache) = Len(before) - 1
  /\ (last.op = "delete" /\ PrevWasSetOfKey)
       => /\ last.key \in keys(before)
          /\ last.key \notin keys(cache)
          /\ Len(cache) = Len(before) - 1
  /\ ( /\ last.op = "get" /\ max_size > 0 /\ LastIndex >= 2
       /\ log[LastIndex - 1].op = "delete"
       /\ log[LastIndex - 1].key = last.key )
       => last.out = Miss

\* ----------------------------------------------------------- claim C19
\* The two callers differ in tenant or in model.
OtherCaller == <<kin.tenant_id, kin.model>> # <<kin.tenant2, kin.model2>>

Accepted ==
  /\ 0 <= move.row /\ move.row < game.n
  /\ 0 <= move.col /\ move.col < game.n
  /\ move.before.board[move.row][move.col] = EMPTY
Side == 0..(game.n - 1)
\* After the last call, read off the board: the placed cell's row, its
\* column, and each diagonal is filled with symbol s.
RowFilled(s) == \A c \in Side : game.board[move.row][c] = s
ColFilled(s) == \A r \in Side : game.board[r][move.col] = s
DiagFilled(s) == \A i \in Side : game.board[i][i] = s
AntiDiagFilled(s) == \A i \in Side : game.board[i][game.n - 1 - i] = s
OnDiag == move.row = move.col
OnAntiDiag == move.row + move.col = game.n - 1
\* A call that is not accepted returns False and leaves the object as it was.
RejectedUnchanged == ~Accepted => (move.ret = FALSE /\ game = move.before)

\* C20 (win detection), as claimed: make_move returns True exactly when the
\* move is accepted and the placed cell's row, its column or a diagonal that
\* contains the placed cell is filled with the mover's symbol; a move that is
\* not accepted returns False and changes nothing.
C20_WinDetection_Claimed ==
  moves > 0 =>
    /\ move.ret = ( /\ Accepted
                    /\ \/ RowFilled(move.val)
                       \/ ColFilled(move.val)
                       \/ OnDiag /\ DiagFilled(move.val)
                       \/ OnAntiDiag /\ AntiDiagFilled(move.val) )
    /\ RejectedUnchanged

\* C20 (win detection), as the code has it: make_move returns True exactly
\* when the move is accepted and the placed cell's row or column is filled
\* with the mover's symbol, or either diagonal of the board, whether or not
\* the placed cell is on it, is filled with one player's symbol; a move that
\* is not accepted returns False and changes nothing.
C20_WinDetection ==
  moves > 0 =>
    /\ move.ret = ( /\ Accepted
                    /\ \/ RowFilled(move.val)
                       \/ ColFilled(move.val)
                       \/ \E s \in PlayerValues : DiagFilled(s)
                       \/ \E s \in PlayerValues : AntiDiagFilled(s) )
    /\ RejectedUnchanged

\* An accepted move off both diagonals that completes neither its row nor
\* its column has returned True, a diagonal being already filled.
C20_Witness ==
  /\ moves > 0 /\ Accepted /\ move.ret = TRUE
  /\ ~OnDiag /\ ~OnAntiDiag
  /\ ~RowFilled(move.val) /\ ~ColFilled(move.val)
  /\ \E s \in PlayerValues : DiagFilled(s) \/ AntiDiagFilled(s)

\* ----------------------------------------------------------- claim C21
\* The objects Logger() has returned, to any thread and at any call.
ReceivedBy(t) == { got[t][i] : i \in 1..Len(got[t]) }
AllReceived == UNION { ReceivedBy(t) : t \in Threads }

\* C21 (Logger singleton): under every interleaving of Logger() calls all
\* callers receive one and the same object, only one Logger is ever made,
\* build is called once, and the handler chain is bound on the object, with
\* the handlers linked, before any caller receives it, so no log call fails.
C21_LoggerSingleton ==
  /\ Cardinality(AllReceived) <= 1
  /\ None \notin AllReceived
  /\ Len(heap) <= 1
  /\ builds <= 1
  /\ \A o \in AllReceived :
       /\ o = instance
       /\ "handler_chain" \in heap[o[2]]
       /\ builds = 1
       /\ hnext = build([h \in Handlers |-> None])
  /\ \A t \in Threads : logged[t] # "AttributeError"

\* Every thread has called Logger() as often as it may and has logged, and
\* one object was made and one chain built.
C21_Witness ==
  /\ \A t \in Threads : Len(got[t]) = MaxNew /\ logged[t] = "handled"
  /\ Cardinality(AllReceived) = 1
  /\ Len(heap) = 1 /\ builds = 1

====
